---- MODULE Spec2Model ----
(***************************************************************************)
(* A model of the Scrapper repository's product pipeline:                  *)
(*   - demo.py main: the retry loop around the page fetch,                 *)
(*   - demo.py process_extraction_results: the response normalizer,        *)
(*   - demo.py validate_products: the record validator,                    *)
(*   - main.py: the aggregation and deduplication of the LLM's products.   *)
(*                                                                         *)
(* Python strings are sequences of one-character strings.  The character   *)
(* "R" stands for the rupee sign.  A Python dict is the sequence of its    *)
(* <<key, value>> pairs in insertion order, with pairwise distinct keys.   *)
(* A JSON / Python value is a record [t |-> tag, v |-> payload].           *)
(***************************************************************************)
EXTENDS Integers, Sequences, FiniteSets, TLC

VARIABLES
    \* demo.py main
    pc, retry_count, delay, fetches, slept, errs, res, products,
    \* demo.py process_extraction_results
    content, outcome,
    \* demo.py validate_products
    raw_data, validated, error_log, error_file, vpc,
    \* main.py aggregation and deduplication
    all_products, unique_products, mpc, llm_log, products_csv, unique_again,
    \* demo.py, the CSV export and its reading back
    to_export, csv_text, csv_back, epc,
    \* scrapper.py: the input table, the loaded items, the index of the item in
    \* flight, the position of the flow, the result map, the fetches issued,
    \* the fetch result in hand, and the files of the output directory
    table, urls, idx, spc, results, fetchlog, result, files

vars == <<pc, retry_count, delay, fetches, slept, errs, res, products,
          content, outcome,
          raw_data, validated, error_log, error_file, vpc,
          all_products, unique_products, mpc, llm_log, products_csv, unique_again,
          to_export, csv_text, csv_back, epc,
          table, urls, idx, spc, results, fetchlog, result, files>>

mainVars == <<pc, retry_count, delay, fetches, slept, errs, res, products>>
normVars == <<content, outcome>>
valVars  == <<raw_data, validated, error_log, error_file, vpc>>
dedupVars == <<all_products, unique_products, mpc, llm_log, products_csv, unique_again>>
exportVars == <<to_export, csv_text, csv_back, epc>>
scrapeVars == <<table, urls, idx, spc, results, fetchlog, result, files>>

-----------------------------------------------------------------------------
(* Bounds of the model *)

\* longest price string drawn as a validator input
MaxPriceLen == 5
\* longest candidate list handed to validate_products
MaxItems == 2
\* longest response text, in tokens
MaxTokens == 4
\* records aggregated by main.py before deduplication
MaxProducts == 3
\* records written to products.csv by one export
MaxRows == 2
\* chunks of one batch run whose LLM call or JSON parsing fails
MaxChunks == 2
\* rows of the input table
MaxUrls == 2

-----------------------------------------------------------------------------
(* Sequences *)

Range(s) == {s[i] : i \in 1..Len(s)}

SeqsUpTo(S, n) == UNION {[1..k -> S] : k \in 0..n}

Min(a, b) == IF a < b THEN a ELSE b

RECURSIVE Pow2(_)
Pow2(n) == IF n = 0 THEN 1 ELSE 2 * Pow2(n - 1)

-----------------------------------------------------------------------------
(* Python values *)

Str(s)   == [t |-> "str",  v |-> s]
Num(d)   == [t |-> "num",  v |-> d]
Null     == [t |-> "null", v |-> <<>>]
List(xs) == [t |-> "list", v |-> xs]
Dict(kv) == [t |-> "dict", v |-> kv]

IsStr(x)  == x.t = "str"
IsList(x) == x.t = "list"
IsDict(x) == x.t = "dict"

\* str(v): a string is itself, a number its digits, None the text "None";
\* the only containers the inputs hold as field values are the empty ones
PyStr(x) ==
    CASE x.t = "str"  -> x.v
      [] x.t = "num"  -> x.v
      [] x.t = "null" -> <<"N", "o", "n", "e">>
      [] x.t = "list" -> <<"[", "]">>
      [] x.t = "dict" -> <<"{", "}">>

\* dict operations on the pair sequence
Keys(kv) == {kv[i][1] : i \in 1..Len(kv)}
Has(kv, k) == k \in Keys(kv)
Get(kv, k) == kv[CHOOSE i \in 1..Len(kv) : kv[i][1] = k][2]
\* an assignment that leaves the value of an existing key as it is
PutKeepFirst(kv, k, x) == IF Has(kv, k) THEN kv ELSE Append(kv, <<k, x>>)

\* d[k] = x: an existing key keeps its place, a new key goes last
Put(kv, k, x) ==
    IF Has(kv, k)
    THEN [i \in 1..Len(kv) |-> IF kv[i][1] = k THEN <<k, x>> ELSE kv[i]]
    ELSE Append(kv, <<k, x>>)
\* dict equality: the same keys with the same values, in any order
DictEq(a, b) == Range(a) = Range(b)

KTitle   == <<"t", "i", "t", "l", "e">>
KPrice   == <<"p", "r", "i", "c", "e">>
KWeight  == <<"w", "e", "i", "g", "h", "t">>
KBadge   == <<"b", "a", "d", "g", "e">>
KReviews == <<"r", "e", "v", "i", "e", "w", "s">>

Digits == {"0", "1", "2", "3", "4", "5", "6", "7", "8", "9"}
Spaces == {" "}

-----------------------------------------------------------------------------
(* demo.py: the Product schema (pydantic, lax mode) *)

\* an Optional[str] field: None when the key is absent or null
OptField(kv, k) == IF Has(kv, k) /\ IsStr(Get(kv, k)) THEN Get(kv, k) ELSE Null

\* Product(**kv) does not raise: title and price are given and are strings,
\* each optional field that is given is a string or None; other keys are ignored
ProductAccepts(kv) ==
    /\ Has(kv, KTitle) /\ IsStr(Get(kv, KTitle))
    /\ Has(kv, KPrice) /\ IsStr(Get(kv, KPrice))
    /\ \A k \in {KWeight, KBadge, KReviews} :
           Has(kv, k) => Get(kv, k).t \in {"str", "null"}

Product(kv) ==
    [title   |-> Get(kv, KTitle).v,
     weight  |-> OptField(kv, KWeight),
     price   |-> Get(kv, KPrice).v,
     badge   |-> OptField(kv, KBadge),
     reviews |-> OptField(kv, KReviews)]

-----------------------------------------------------------------------------
(* demo.py: validate_products *)

RECURSIVE StripPrice(_)
\* re.sub(r'[^\d.]', '', s): every character that is no digit and no "." goes
StripPrice(s) ==
    IF s = <<>> THEN <<>>
    ELSE (IF Head(s) \in Digits \cup {"."} THEN <<Head(s)>> ELSE <<>>)
         \o StripPrice(Tail(s))

RECURSIVE RunEnd(_, _, _)
\* the first index >= i of s that holds no character of C (Len(s)+1 if none)
RunEnd(s, i, C) ==
    IF i <= Len(s) /\ s[i] \in C THEN RunEnd(s, i + 1, C) ELSE i

\* the end of a match of (\d+\s*[gG]|\d+\s*[kK][gG]) starting at i, 0 if none
WeightMatchEnd(s, i) ==
    IF ~(i <= Len(s) /\ s[i] \in Digits) THEN 0
    ELSE LET u == RunEnd(s, RunEnd(s, i, Digits), Spaces)
         IN  IF u <= Len(s) /\ s[u] \in {"g", "G"} THEN u
             ELSE IF /\ u + 1 <= Len(s)
                     /\ s[u] \in {"k", "K"}
                     /\ s[u + 1] \in {"g", "G"} THEN u + 1
             ELSE 0

\* re.search(...).group(1) on the title: the leftmost match, <<>> when None
WeightSearch(s) ==
    LET starts == {i \in 1..Len(s) : WeightMatchEnd(s, i) > 0}
    IN  IF starts = {} THEN <<>>
        ELSE LET i == CHOOSE j \in starts : \A k \in starts : j <= k
             IN  SubSeq(s, i, WeightMatchEnd(s, i))

\* sanitized = {k: str(v) for k, v in item.items()}
Sanitize(kv) == [i \in 1..Len(kv) |-> <<kv[i][1], Str(PyStr(kv[i][2]))>>]

\* lines 63-64: the price normalization
NormalizePrice(kv) ==
    IF Has(kv, KPrice)
    THEN Put(kv, KPrice, Str(StripPrice(Get(kv, KPrice).v)))
    ELSE kv

\* sanitized.get(k, ''): the value, or '' when the key is absent
GetOrEmpty(kv, k) == IF Has(kv, k) THEN Get(kv, k).v ELSE <<>>

\* lines 67-69: the weight fallback, taken when weight is absent or ''
WeightFallback(kv) ==
    IF GetOrEmpty(kv, KWeight) = <<>> /\ WeightSearch(GetOrEmpty(kv, KTitle)) # <<>>
    THEN Put(kv, KWeight, Str(WeightSearch(GetOrEmpty(kv, KTitle))))
    ELSE kv

\* lines 60-69 for a mapping
Sanitized(item) == WeightFallback(NormalizePrice(Sanitize(item.v)))

\* the body of the try block raises: item.items() on a non-mapping, or
\* Product(**sanitized) on a missing required field
ItemRaises(item) == ~IsDict(item) \/ ~ProductAccepts(Sanitized(item))

ItemError(item) ==
    IF ~IsDict(item) THEN "AttributeError" ELSE "ValidationError"

RECURSIVE ValidatedUntilError(_, _)
\* the list `validated` of a loop that ends at the first item that raises
ValidatedUntilError(raw, i) ==
    IF i > Len(raw) \/ ItemRaises(raw[i]) THEN <<>>
    ELSE <<Product(Sanitized(raw[i]))>> \o ValidatedUntilError(raw, i + 1)

RECURSIVE ValidatedFrom(_, _)
\* the list `validated` after the loop has run over raw[i..]
ValidatedFrom(raw, i) ==
    IF i > Len(raw) THEN <<>>
    ELSE (IF ItemRaises(raw[i]) THEN <<>> ELSE <<Product(Sanitized(raw[i]))>>)
         \o ValidatedFrom(raw, i + 1)

RECURSIVE ErrorLogFromOne(_, _)
\* the error log with the index counted from 1
ErrorLogFromOne(raw, i) ==
    IF i > Len(raw) THEN <<>>
    ELSE (IF ItemRaises(raw[i])
          THEN <<[index |-> i, item |-> raw[i], error |-> ItemError(raw[i])]>>
          ELSE <<>>)
         \o ErrorLogFromOne(raw, i + 1)

RECURSIVE ErrorLogFrom(_, _)
\* the list `error_log` after the loop has run over raw[i..]; idx counts from 0
ErrorLogFrom(raw, i) ==
    IF i > Len(raw) THEN <<>>
    ELSE (IF ItemRaises(raw[i])
          THEN <<[index |-> i - 1, item |-> raw[i], error |-> ItemError(raw[i])]>>
          ELSE <<>>)
         \o ErrorLogFrom(raw, i + 1)

\* lines 80-82: validation_errors.json is written only when error_log is non-empty
WriteErrorFile(file, log) ==
    IF log # <<>> THEN [exists |-> TRUE, entries |-> log] ELSE file

NoFile == [exists |-> FALSE, entries |-> <<>>]

\* the example titles and prices: "B 400g" is a name with a weight in it
TBread     == <<"B", " ", "4", "0", "0", "g">>
TPlain     == <<"B">>
PFifty     == <<"R", "5", "0">>
PThirty    == <<"R", "3", "0">>

\* a mapping of the given fields; an argument of {} leaves the key out
Candidate(titles, prices, weights) ==
    {Dict(t \o p \o w) :
        t \in {<<>>} \cup {<<<<KTitle, x>>>> : x \in titles},
        p \in {<<>>} \cup {<<<<KPrice, x>>>> : x \in prices},
        w \in {<<>>} \cup {<<<<KWeight, x>>>> : x \in weights}}

\* the candidates of the repeated runs: the two items of the end-to-end
\* scenario, an item with an empty title, an item without price and a
\* non-mapping
RunItems ==
    {Dict(<<<<KTitle, Str(TBread)>>, <<KPrice, Str(PFifty)>>>>),
     Dict(<<<<KTitle, Str(<<>>)>>, <<KPrice, Str(PThirty)>>>>),
     Dict(<<<<KPrice, Str(PThirty)>>>>),
     Dict(<<<<KTitle, Str(TPlain)>>>>),
     Str(TPlain)}

RunInputs == SeqsUpTo(RunItems, MaxItems)

PriceChars == {"R", ".", "5"}

\* the candidates of a single call: every price text up to MaxPriceLen
CallItems ==
    Candidate({Str(<<>>), Str(TPlain), Str(TBread)},
              {Str(p) : p \in SeqsUpTo(PriceChars, MaxPriceLen)}
                  \cup {Num(<<"5", "0">>), Null},
              {Null, Str(<<>>), Str(<<"1", "k", "g">>)})

\* validate_products(raw), lines 53-84, on the input raw
ValidateProducts(raw) ==
    /\ raw_data' = raw
    /\ validated' = ValidatedFrom(raw, 1)
    /\ error_log' = ErrorLogFrom(raw, 1)
    /\ error_file' = WriteErrorFile(error_file, ErrorLogFrom(raw, 1))
    /\ vpc' = "returned"

\* one run of the validator in a process that runs it again and again
ValidateRun ==
    /\ \E raw \in RunInputs : ValidateProducts(raw)
    /\ UNCHANGED <<mainVars, normVars, dedupVars, exportVars, scrapeVars>>

\* the call of the validator on the input drawn at the start
ValidateCall ==
    /\ vpc = "called"
    /\ ValidateProducts(raw_data)
    /\ UNCHANGED <<mainVars, normVars, dedupVars, exportVars, scrapeVars>>

-----------------------------------------------------------------------------
(* demo.py: process_extraction_results *)

(* A response text is a sequence of tokens.  The plain tokens are the      *)
(* opening fence ```json, the closing fence ```, white space, prose (text  *)
(* holding no brace, bracket, quote or fence) and a lone double quote.  A  *)
(* json token is the serialized text of one JSON value that is no string;  *)
(* an esc token is such a text with its inner quotes backslash-escaped.    *)
Tk(kind)  == [t |-> kind, v |-> Null]
TFenceJson == Tk("fence_json")
TFence     == Tk("fence")
TWs        == Tk("ws")
TProse     == Tk("prose")
TQuote     == Tk("quote")
Json(x)    == [t |-> "json", v |-> x]
Esc(x)     == [t |-> "esc",  v |-> x]

Text(toks) == [t |-> "text", v |-> toks]
Data(x)    == [t |-> "data", v |-> x]

\* the token's text starts with "{" and ends with "}"
IsObjectText(tok) == tok.t \in {"json", "esc"} /\ IsDict(tok.v)

\* .replace('\\"', '"')
Unescape(toks) ==
    [i \in 1..Len(toks) |-> IF toks[i].t = "esc" THEN Json(toks[i].v) ELSE toks[i]]

\* lines 157-158: a text that starts and ends with a double quote loses both
\* and is unescaped
Unwrap(toks) ==
    IF Len(toks) >= 1 /\ toks[1] = TQuote /\ toks[Len(toks)] = TQuote
    THEN Unescape(SubSeq(toks, 2, Len(toks) - 1))
    ELSE toks

RECURSIVE RunStart(_, _, _)
\* the last index <= i of s that holds no character of C (0 if none)
RunStart(s, i, C) ==
    IF i >= 1 /\ s[i] \in C THEN RunStart(s, i - 1, C) ELSE i

\* json.loads: one JSON text, white space allowed around it
LoadsOk(toks) ==
    LET a == RunEnd(toks, 1, {TWs})
        b == RunStart(toks, Len(toks), {TWs})
    IN  a = b /\ a >= 1 /\ a <= Len(toks) /\ toks[a].t = "json"

LoadsValue(toks) == toks[RunEnd(toks, 1, {TWs})].v

\* the text has a fence right after the white space that follows position e
FenceFollows(toks, e) ==
    LET f == RunEnd(toks, e + 1, {TWs})
    IN  f <= Len(toks) /\ toks[f] \in {TFence, TFenceJson}

\* the match of ```json\s*(\{.*?\})\s*``` that starts at the fence at i:
\* <<s, e>>, the ends of group 1, or <<0, 0>>.  .*? is lazy: e is the first
\* closing brace, at or after s, that white space and a fence follow
MdMatchAt(toks, i) ==
    LET s == RunEnd(toks, i + 1, {TWs})
        ends == {e \in s..Len(toks) : IsObjectText(toks[e]) /\ FenceFollows(toks, e)}
    IN  IF /\ toks[i] = TFenceJson
           /\ s <= Len(toks)
           /\ IsObjectText(toks[s])
           /\ ends # {}
        THEN <<s, CHOOSE e \in ends : \A x \in ends : e <= x>>
        ELSE <<0, 0>>

\* re.search: the match at the leftmost position that has one
MdMatch(toks) ==
    LET starts == {i \in 1..Len(toks) : MdMatchAt(toks, i) # <<0, 0>>}
    IN  IF starts = {} THEN <<0, 0>>
        ELSE MdMatchAt(toks, CHOOSE i \in starts : \A x \in starts : i <= x)

MdGroup(toks) == SubSeq(toks, MdMatch(toks)[1], MdMatch(toks)[2])

\* lines 155-171: the value parsed from the content, or a raised exception
\* (ValueError, or the JSONDecodeError of the fenced text)
Parse(c) ==
    IF c.t = "data" THEN [ok |-> TRUE, data |-> c.v]
    ELSE LET toks == Unwrap(c.v)
         IN  IF LoadsOk(toks) THEN [ok |-> TRUE, data |-> LoadsValue(toks)]
             ELSE IF MdMatch(toks) # <<0, 0>> /\ LoadsOk(MdGroup(toks))
                  THEN [ok |-> TRUE, data |-> LoadsValue(MdGroup(toks))]
             ELSE [ok |-> FALSE, data |-> Null]

KProducts == <<"p", "r", "o", "d", "u", "c", "t", "s">>
KBlocks   == <<"b", "l", "o", "c", "k", "s">>

\* the envelope keys looked up in the other order, blocks before products
EnvelopeBlocksFirst(data) ==
    IF ~IsDict(data) THEN data
    ELSE IF /\ Has(data.v, KBlocks)
            /\ IsList(Get(data.v, KBlocks))
            /\ Len(Get(data.v, KBlocks).v) > 0
         THEN Get(data.v, KBlocks)
    ELSE IF Has(data.v, KProducts) THEN Get(data.v, KProducts)
    ELSE data

\* lines 174-179: the envelope keys
Envelope(data) ==
    IF ~IsDict(data) THEN data
    ELSE IF Has(data.v, KProducts) THEN Get(data.v, KProducts)
    ELSE IF /\ Has(data.v, KBlocks)
            /\ IsList(Get(data.v, KBlocks))
            /\ Len(Get(data.v, KBlocks).v) > 0
         THEN Get(data.v, KBlocks)
    ELSE data

HasRupee(s) == "R" \in Range(s)

\* lines 199-205: the pair whose key, or else whose string value, holds the
\* rupee sign; the first such pair in the mapping's order decides
RupeeHits(kv) ==
    {i \in 1..Len(kv) :
        HasRupee(kv[i][1]) \/ (IsStr(kv[i][2]) /\ HasRupee(kv[i][2].v))}

PromotePrice(kv) ==
    IF Has(kv, KPrice) \/ RupeeHits(kv) = {} THEN kv
    ELSE LET i == CHOOSE j \in RupeeHits(kv) : \A x \in RupeeHits(kv) : j <= x
         IN  IF HasRupee(kv[i][1])
             THEN Append(kv, <<KPrice, Str(kv[i][1])>>)
             ELSE Append(kv, <<KPrice, kv[i][2]>>)

\* the price left with the type it came with
PriceAsIs(kv) == kv

\* lines 212-213: a price that is no string becomes its str()
PriceToStr(kv) ==
    IF IsStr(Get(kv, KPrice)) THEN kv
    ELSE Put(kv, KPrice, Str(PyStr(Get(kv, KPrice))))

\* lines 189-209: the element is kept
Kept(item) ==
    IsDict(item) /\ Has(item.v, KTitle) /\ Has(PromotePrice(item.v), KPrice)

RECURSIVE RawProductsFrom(_, _)
\* lines 186-215: raw_products after the loop has run over xs[i..]
RawProductsFrom(xs, i) ==
    IF i > Len(xs) THEN <<>>
    ELSE (IF Kept(xs[i]) THEN <<PriceToStr(PromotePrice(xs[i].v))>> ELSE <<>>)
         \o RawProductsFrom(xs, i + 1)

RawProducts(data) == IF IsList(data) THEN RawProductsFrom(data.v, 1) ELSE <<>>

\* line 222: the strict pass raises unless every element fits the schema
StrictPassRaises(raw) == \E i \in 1..Len(raw) : ~ProductAccepts(raw[i])

StrictPass(raw) == [i \in 1..Len(raw) |-> Product(raw[i])]

RECURSIVE FallbackUntilError(_, _)
\* a per-record pass that ends at the first record that raises
FallbackUntilError(raw, i) ==
    IF i > Len(raw) \/ ~ProductAccepts(raw[i]) THEN <<>>
    ELSE <<Product(raw[i])>> \o FallbackUntilError(raw, i + 1)

RECURSIVE FallbackFrom(_, _)
\* lines 227-233: the per-record pass, skipping what raises
FallbackFrom(raw, i) ==
    IF i > Len(raw) THEN <<>>
    ELSE (IF ProductAccepts(raw[i]) THEN <<Product(raw[i])>> ELSE <<>>)
         \o FallbackFrom(raw, i + 1)

Validate(raw) ==
    IF StrictPassRaises(raw) THEN FallbackFrom(raw, 1) ELSE StrictPass(raw)

\* line 248: row[k] = row[k] or ""
OrEmpty(x) == IF x = Null THEN <<>> ELSE x.v

\* lines 241-249: the row written for a product, in the schema's field order
CsvRow(p) == <<p.title, OrEmpty(p.weight), p.price, OrEmpty(p.badge), OrEmpty(p.reviews)>>

NoCsv == [written |-> FALSE, rows |-> <<>>]

(* The characters of a CSV file: "," is the delimiter, "Q" stands for the    *)
(* double quote, "CR" and "LF" for carriage return and line feed.            *)
CsvSpecial == {",", "Q", "CR", "LF"}

RECURSIVE DoubleQuotes(_)
\* every double quote of the field is written twice
DoubleQuotes(f) ==
    IF f = <<>> THEN <<>>
    ELSE (IF Head(f) = "Q" THEN <<"Q", "Q">> ELSE <<Head(f)>>) \o DoubleQuotes(Tail(f))

\* the field written without any quoting
CsvFieldRaw(f) == f

\* csv.writer, QUOTE_MINIMAL: a field that holds the delimiter, the quote
\* character or a line terminator is quoted
CsvField(f) ==
    IF Range(f) \cap CsvSpecial # {}
    THEN <<"Q">> \o DoubleQuotes(f) \o <<"Q">>
    ELSE f

RECURSIVE CsvJoin(_, _)
\* the fields from the i-th on, delimited, and the line terminator "\r\n"
CsvJoin(fields, i) ==
    IF i > Len(fields) THEN <<"CR", "LF">>
    ELSE (IF i > 1 THEN <<",">> ELSE <<>>) \o CsvField(fields[i]) \o CsvJoin(fields, i + 1)

CsvLine(fields) == CsvJoin(fields, 1)

RECURSIVE CsvLines(_, _)
CsvLines(rows, i) ==
    IF i > Len(rows) THEN <<>> ELSE CsvLine(rows[i]) \o CsvLines(rows, i + 1)

\* line 241: the schema's property names, in the order of the class body
FieldNames == <<KTitle, KWeight, KPrice, KBadge, KReviews>>

\* lines 241-249: the text of products.csv for the products ps
CsvFile(ps) == CsvLine(FieldNames) \o CsvLines([i \in 1..Len(ps) |-> CsvRow(ps[i])], 1)

\* the least number of a non-empty set of numbers
Least(S) == CHOOSE m \in S : \A n \in S : m <= n

\* the first position from i on that holds a delimiter or a line break, the
\* position after the text if there is none
FieldStop(text, i) ==
    Least({Len(text) + 1} \cup {e \in i..Len(text) : text[e] \in {",", "CR", "LF"}})

\* the position of the quote that closes the quoted field opened at i: the
\* first quote after an even number of quotes that no quote follows; 0 if the
\* field is never closed
ClosingQuote(text, i) ==
    LET ends == {j \in (i + 1)..Len(text) :
                    /\ text[j] = "Q"
                    /\ (j = Len(text) \/ text[j + 1] # "Q")
                    /\ Cardinality({k \in (i + 1)..j : text[k] = "Q"}) % 2 = 1}
    IN  IF ends = {} THEN 0 ELSE Least(ends)

RECURSIVE Undouble(_)
\* inside quotes a doubled quote stands for one quote
Undouble(f) ==
    IF f = <<>> THEN <<>>
    ELSE IF Head(f) = "Q" /\ Len(f) >= 2
    THEN <<"Q">> \o Undouble(Tail(Tail(f)))
    ELSE <<Head(f)>> \o Undouble(Tail(f))

\* the field that starts at position i, and the position e where it stops
FieldAt(text, i) ==
    IF i <= Len(text) /\ text[i] = "Q"
    THEN LET j == ClosingQuote(text, i)
         IN  IF j = 0
             THEN [f |-> Undouble(SubSeq(text, i + 1, Len(text))), e |-> Len(text) + 1]
             ELSE LET e == FieldStop(text, j + 1)
                  IN  [f |-> Undouble(SubSeq(text, i + 1, j - 1)) \o SubSeq(text, j + 1, e - 1),
                       e |-> e]
    ELSE LET e == FieldStop(text, i)
         IN  [f |-> SubSeq(text, i, e - 1), e |-> e]

\* the position after the line break at e: "\r\n" is one line break
AfterBreak(text, e) ==
    IF text[e] = "CR" /\ e < Len(text) /\ text[e + 1] = "LF" THEN e + 2 ELSE e + 1

RECURSIVE RowFrom(_, _, _)
\* the record whose next field starts at i, and the position after it
RowFrom(text, i, row) ==
    LET fe == FieldAt(text, i)
    IN  IF fe.e > Len(text) THEN [row |-> Append(row, fe.f), next |-> fe.e]
        ELSE IF text[fe.e] = "," THEN RowFrom(text, fe.e + 1, Append(row, fe.f))
        ELSE [row |-> Append(row, fe.f), next |-> AfterBreak(text, fe.e)]

RECURSIVE CsvParse(_, _, _)
\* csv.reader on the text from position i on; an empty line is an empty row
CsvParse(text, i, rows) ==
    IF i > Len(text) THEN rows
    ELSE IF text[i] \in {"CR", "LF"}
    THEN CsvParse(text, AfterBreak(text, i), Append(rows, <<>>))
    ELSE LET r == RowFrom(text, i, <<>>)
         IN  CsvParse(text, r.next, Append(rows, r.row))

\* the rows csv.reader gives for the text, the header row first
CsvRead(text) == CsvParse(text, 1, <<>>)

\* process_extraction_results(content), lines 151-255: what the call does
ProcessExtractionResults(c) ==
    IF ~Parse(c).ok
    THEN [status |-> "raised", data |-> Null, raw |-> <<>>, fallback |-> FALSE,
          products |-> <<>>, csv |-> NoCsv]
    ELSE LET raw == RawProducts(Envelope(Parse(c).data))
             ps  == Validate(raw)
         IN  [status   |-> "returned",
              data     |-> Envelope(Parse(c).data),
              raw      |-> raw,
              fallback |-> StrictPassRaises(raw),
              products |-> ps,
              csv      |-> IF ps = <<>> THEN NoCsv
                           ELSE [written |-> TRUE,
                                 rows |-> [i \in 1..Len(ps) |-> CsvRow(ps[i])]]]

\* the response values of the examples
VRecord  == Dict(<<<<KTitle, Str(TBread)>>, <<KPrice, Str(PFifty)>>>>)
VArray   == List(<<VRecord>>)
VNoPrice == List(<<Dict(<<<<KTitle, Str(TPlain)>>>>)>>)
VObject  == Dict(<<<<KProducts, VArray>>>>)
VEmpty   == List(<<>>)
VOther   == Dict(<<<<KTitle, Str(TPlain)>>, <<KPrice, Str(PThirty)>>>>)

\* elements the filter and the two passes treat differently: a title that is
\* no string, a price that is a number or null, no title, no mapping, and
\* no price with the rupee sign in a key, in a value, in both or in neither
KCost     == <<"c", "o", "s", "t">>
VBadTitle == Dict(<<<<KTitle, Num(<<"5">>)>>, <<KPrice, Str(PThirty)>>>>)
VNumPrice == Dict(<<<<KTitle, Str(TPlain)>>, <<KPrice, Num(<<"5", "0">>)>>>>)
VNoTitle  == Dict(<<<<KPrice, Str(PThirty)>>>>)
VInKey    == Dict(<<<<KTitle, Str(TPlain)>>, <<PFifty, Str(<<"x">>)>>>>)
VInValue  == Dict(<<<<KTitle, Str(TPlain)>>, <<KCost, Str(PThirty)>>>>)
VInBoth   == Dict(<<<<KTitle, Str(TPlain)>>, <<KCost, Str(PThirty)>>,
                    <<PFifty, Str(<<"x">>)>>>>)
VKeyFirst == Dict(<<<<KTitle, Str(TPlain)>>, <<PFifty, Str(<<"x">>)>>,
                    <<KCost, Str(PThirty)>>>>)
VNoRupee  == Dict(<<<<KTitle, Str(TPlain)>>, <<KCost, Num(<<"5">>)>>>>)

Batches ==
    {List(<<VRecord, VBadTitle, VOther>>),
     List(<<VBadTitle, VRecord>>),
     List(<<VNumPrice, VRecord>>),
     List(<<Str(TPlain), VNoTitle, VNumPrice, VNoRupee, VRecord>>),
     List(<<VInKey>>), List(<<VInValue>>), List(<<VInBoth>>),
     List(<<VKeyFirst>>), List(<<VNoRupee>>),
     List(<<VInValue, VInKey, VNoRupee>>)}

\* the mappings with envelope keys: both keys in either order, blocks alone,
\* blocks that are empty or no list, and products that are no list
Envelopes ==
    {Dict(<<<<KProducts, VArray>>, <<KBlocks, List(<<VOther>>)>>>>),
     Dict(<<<<KBlocks, List(<<VOther>>)>>, <<KProducts, VArray>>>>),
     Dict(<<<<KBlocks, List(<<VOther>>)>>, <<KProducts, VEmpty>>>>),
     Dict(<<<<KBlocks, List(<<VOther>>)>>, <<KProducts, Null>>>>),
     Dict(<<<<KBlocks, List(<<VOther>>)>>>>),
     Dict(<<<<KBlocks, List(<<VOther>>)>>, <<KTitle, Str(TPlain)>>>>),
     Dict(<<<<KBlocks, VEmpty>>>>),
     Dict(<<<<KBlocks, Str(TPlain)>>>>)}

Tokens ==
    {TFenceJson, TFence, TWs, TProse, TQuote}
        \cup {Json(x) : x \in {VArray, VObject, VRecord, VEmpty}}
        \cup {Esc(VArray)}

\* the contents handed to the normalizer: every text of up to MaxTokens
\* tokens, and the values a caller passes already parsed
Contents ==
    {Text(toks) : toks \in SeqsUpTo(Tokens, MaxTokens)}
        \cup {Data(x) : x \in {Null, VArray, VObject, VNoPrice}}
        \cup {Data(x) : x \in Envelopes}
        \cup {Text(<<Json(x)>>) : x \in Envelopes}
        \cup {Data(x) : x \in Batches}
        \cup {Text(<<Json(x)>>) : x \in Batches}

NoOutcome ==
    [status |-> "none", data |-> Null, raw |-> <<>>, fallback |-> FALSE,
     products |-> <<>>, csv |-> NoCsv]

\* the call process_extraction_results(content) on the content drawn at the start
Process ==
    /\ outcome = NoOutcome
    /\ outcome' = ProcessExtractionResults(content)
    /\ UNCHANGED <<content, mainVars, valVars, dedupVars, exportVars, scrapeVars>>

\* the field texts of the exported products: plain, empty, and texts that
\* hold the delimiter, a quote or a line break
ExportTexts == {<<"a">>, <<>>, <<"a", ",", "b">>, <<"Q", "a", "Q">>, <<"a", "LF", "b">>}

\* the validated products that stand at line 240
ExportProducts ==
    [title : ExportTexts, weight : {Null, Str(<<",">>)}, price : {<<"5">>},
     badge : {Null}, reviews : {Null, Str(<<"a">>)}]

\* lines 236-249: nothing is written for no product, else products.csv is
\* written anew
ExportCsv ==
    /\ epc = "validated"
    /\ IF to_export = <<>>
       THEN epc' = "skipped" /\ UNCHANGED csv_text
       ELSE epc' = "written" /\ csv_text' = CsvFile(to_export)
    /\ UNCHANGED <<to_export, csv_back, mainVars, normVars, valVars, dedupVars, scrapeVars>>

\* products.csv is read back with csv.reader
ReadCsv ==
    /\ epc = "written"
    /\ csv_back' = CsvRead(csv_text)
    /\ epc' = "read"
    /\ UNCHANGED <<to_export, csv_text, mainVars, normVars, valVars, dedupVars, scrapeVars>>

-----------------------------------------------------------------------------
(* demo.py: main, the retry loop *)

max_retries == 7
base_delay == 8
delay_cap == 120

\* what one pass through lines 94-110 gives: an exception of the browser
\* session or of arun, whose message holds "rate limit" or not, or a result
\* with its status code and its extracted content
Raises(rl)           == [t |-> "raise",  rl |-> rl,    status |-> 0,  content |-> Data(Null)]
Result(status, c)    == [t |-> "result", rl |-> FALSE, status |-> status, content |-> c]
NoResult             == [t |-> "none",   rl |-> FALSE, status |-> 0,  content |-> Data(Null)]

MainContents ==
    {Data(Null),
     Text(<<Json(VEmpty)>>),
     Text(<<Json(VArray)>>),
     Text(<<Json(VNoPrice)>>),
     Text(<<TProse>>),
     Text(<<TFenceJson, TWs, Json(VObject), TWs, TFence>>)}

StatusCodes == {200, 429}

FetchResults ==
    {Raises(rl) : rl \in BOOLEAN}
        \cup {Result(st, c) : st \in StatusCodes, c \in MainContents}

\* an attempt that also raises when the processing gives no product
AttemptRaisesOnEmpty(o) ==
    \/ o.t = "raise"
    \/ o.status = 429
    \/ ProcessExtractionResults(o.content).status = "raised"
    \/ ProcessExtractionResults(o.content).products = <<>>

\* lines 110-118 raise: the fetch raised, the status is 429, or the
\* processing of the content raised
AttemptRaises(o) ==
    \/ o.t = "raise"
    \/ o.status = 429
    \/ ProcessExtractionResults(o.content).status = "raised"

\* line 124: "rate limit" in str(e).lower()
IsRateLimit(o) ==
    \/ o.t = "raise" /\ o.rl
    \/ o.t = "result" /\ o.status = 429

\* the loop condition with the bound off by one
LoopContinuesLate(rc) == rc <= max_retries

\* line 92: the loop condition
LoopContinues(rc) == rc < max_retries

\* line 122
Delay(rc) == Min(delay_cap, base_delay * Pow2(rc))

\* lines 124-134: where the handler goes after the count was raised to rc
AfterError(o, rc) ==
    IF IsRateLimit(o) THEN "sleep"
    ELSE IF rc < max_retries THEN "sleep"
    ELSE "raised"

\* lines 92-118: an attempt that goes through to the break
AttemptSucceeds ==
    /\ pc = "loop"
    /\ LoopContinues(retry_count)
    /\ \E o \in FetchResults :
        /\ ~AttemptRaises(o)
        /\ res' = o
        /\ products' = ProcessExtractionResults(o.content).products
    /\ fetches' = fetches + 1
    /\ pc' = "success"
    /\ UNCHANGED <<retry_count, delay, slept, errs, normVars, valVars, dedupVars, exportVars, scrapeVars>>

\* lines 92-134: an attempt that ends in the except clause
AttemptFails ==
    /\ pc = "loop"
    /\ LoopContinues(retry_count)
    /\ \E o \in FetchResults :
        /\ AttemptRaises(o)
        /\ res' = o
        /\ errs' = Append(errs, IF IsRateLimit(o) THEN "rate_limit" ELSE "other")
        /\ pc' = AfterError(o, retry_count + 1)
    /\ fetches' = fetches + 1
    /\ retry_count' = retry_count + 1
    /\ delay' = Delay(retry_count + 1)
    /\ UNCHANGED <<slept, products, normVars, valVars, dedupVars, exportVars, scrapeVars>>

\* lines 126 and 131: await asyncio.sleep(delay)
Sleep ==
    /\ pc = "sleep"
    /\ slept' = Append(slept, delay)
    /\ pc' = "loop"
    /\ UNCHANGED <<retry_count, delay, fetches, errs, res, products,
                   normVars, valVars, dedupVars, exportVars, scrapeVars>>

\* line 92: the loop condition fails and main returns
LoopExit ==
    /\ pc = "loop"
    /\ ~LoopContinues(retry_count)
    /\ pc' = "returned"
    /\ UNCHANGED <<retry_count, delay, fetches, slept, errs, res, products,
                   normVars, valVars, dedupVars, exportVars, scrapeVars>>

-----------------------------------------------------------------------------
(* main.py: the aggregation of the per-file products and the deduplication *)

\* a value is hashable: a string, a number or None
Hashable(x) == x.t \in {"str", "num", "null"}

\* line 134: all_products.extend(batch_products) raises on a value that is
\* not iterable
ExtendRaises(parsed) == parsed.t \in {"num", "null"}

\* line 134: a list gives its elements, a mapping its keys
Extended(all, parsed) ==
    IF IsList(parsed) THEN all \o parsed.v
    ELSE all \o [i \in 1..Len(parsed.v) |-> Str(parsed.v[i][1])]

\* line 167 raises: d.items() on a non-mapping, or a tuple that holds an
\* unhashable value put in a set
DedupRaises(all) ==
    \E i \in 1..Len(all) :
        \/ ~IsDict(all[i])
        \/ \E j \in 1..Len(all[i].v) : ~Hashable(all[i].v[j][2])

\* the tuples without their first item
ItemTuplesTail(all) == {Tail(all[i].v) : i \in 1..Len(all)}

\* line 167: {tuple(d.items()) for d in all_products}
ItemTuples(all) == {all[i].v : i \in 1..Len(all)}

\* the lists that hold every element of S once, in any order
Orders(S) == {f \in [1..Cardinality(S) -> S] : Range(f) = S}

KDescription == <<"d", "e", "s", "c", "r", "i", "p", "t", "i", "o", "n">>
KDiscount    == <<"d", "i", "s", "c", "o", "u", "n", "t">>
\* a key that is no column of the export
KName        == <<"n", "a", "m", "e">>

TA == <<"A">>
P1 == <<"1">>
P2 == <<"2">>

\* the records of the LLM's answers: one record in both field orders, a
\* record with another price, and a record that holds a list
LlmRecords ==
    {Dict(<<<<KTitle, Str(TA)>>, <<KPrice, Str(P1)>>>>),
     Dict(<<<<KPrice, Str(P1)>>, <<KTitle, Str(TA)>>>>),
     Dict(<<<<KTitle, Str(TA)>>, <<KPrice, Str(P2)>>>>),
     Dict(<<<<KTitle, Str(TA)>>, <<KBadge, VEmpty>>>>),
     Dict(<<<<KTitle, Str(TA)>>, <<KName, Null>>>>)}

\* what json.loads gives for an answer: a list of records, an envelope
\* mapping, or a bare number
LlmAnswers ==
    {List(xs) : xs \in SeqsUpTo(LlmRecords, 2)}
        \cup {Dict(<<<<KProducts, VEmpty>>>>), Num(<<"5">>)}

\* lines 127-130: a reply that starts with a fence loses it, its last three
\* characters and the white space around the rest; cutting three characters
\* off a reply that does not end with a fence leaves a damaged text
Stripped(toks) ==
    IF toks # <<>> /\ Head(toks) \in {TFenceJson, TFence}
    THEN LET body == Tail(toks)
         IN  IF body = <<>> THEN <<>>
             ELSE IF body[Len(body)] = TFence
             THEN SubSeq(body, RunEnd(body, 1, {TWs}),
                         RunStart(body, Len(body) - 1, {TWs}))
             ELSE SubSeq(body, RunEnd(body, 1, {TWs}), Len(body) - 1) \o <<TProse>>
    ELSE toks

\* the texts of the LLM's replies: bare JSON, fenced JSON, a fence that is not
\* closed, a fence after white space, prose, and the empty reply
LlmTexts ==
    {<<Json(x)>> : x \in LlmAnswers}
        \cup {<<f, TWs, Json(x), TWs, TFence>> : f \in {TFenceJson, TFence}, x \in LlmAnswers}
        \cup {<<TFenceJson, Json(VEmpty)>>, <<TWs, TFenceJson, Json(VEmpty), TFence>>,
              <<TProse, Json(VEmpty)>>, <<TFenceJson>>, <<>>}

\* lines 119-121: the API call of a chunk fails; logged, next chunk
ApiFails ==
    /\ mpc = "collecting"
    /\ Len(llm_log) < MaxChunks
    /\ llm_log' = Append(llm_log, "api")
    /\ UNCHANGED <<all_products, unique_products, mpc, products_csv, unique_again,
                   mainVars, normVars, valVars, exportVars, scrapeVars>>

\* lines 127-136: the reply of a chunk is no JSON text; logged, next chunk
ParseFails ==
    /\ mpc = "collecting"
    /\ Len(llm_log) < MaxChunks
    /\ \E t \in LlmTexts : ~LoadsOk(Stripped(t))
    /\ llm_log' = Append(llm_log, "json")
    /\ UNCHANGED <<all_products, unique_products, mpc, products_csv, unique_again,
                   mainVars, normVars, valVars, exportVars, scrapeVars>>

\* lines 127-134: the reply of a chunk is a JSON text, and its value is
\* appended to all_products
Extend ==
    /\ mpc = "collecting"
    /\ \E t \in LlmTexts :
        /\ LoadsOk(Stripped(t))
        /\ LET parsed == LoadsValue(Stripped(t))
           IN  IF ExtendRaises(parsed)
               THEN mpc' = "raised" /\ UNCHANGED all_products
               ELSE /\ Len(Extended(all_products, parsed)) <= MaxProducts
                    /\ all_products' = Extended(all_products, parsed)
                    /\ UNCHANGED mpc
    /\ UNCHANGED <<unique_products, llm_log, products_csv, unique_again,
                   mainVars, normVars, valVars, exportVars, scrapeVars>>

\* line 167: the deduplication; the order of a set's elements is arbitrary
Dedup ==
    /\ mpc = "collecting"
    /\ IF DedupRaises(all_products)
       THEN mpc' = "raised" /\ UNCHANGED unique_products
       ELSE /\ unique_products' \in Orders(ItemTuples(all_products))
            /\ mpc' = "deduped"
    /\ UNCHANGED <<all_products, llm_log, products_csv, unique_again,
                   mainVars, normVars, valVars, exportVars, scrapeVars>>

\* line 172: the columns of the export
MainFields == <<KTitle, KWeight, KDescription, KDiscount, KPrice, KBadge, KReviews>>

\* the text csv.writer puts in a cell: nothing for None, else str(value)
CellText(x) == IF x = Null THEN <<>> ELSE PyStr(x)

\* line 174: DictWriter raises ValueError on a key that is no column
ExportRaises(us) ==
    \E i \in 1..Len(us) : \E j \in 1..Len(us[i]) : us[i][j][1] \notin Range(MainFields)

\* line 174: the row of a record, the empty text for a key it does not have
MainRow(kv) ==
    [c \in 1..Len(MainFields) |->
        IF Has(kv, MainFields[c]) THEN CellText(Get(kv, MainFields[c])) ELSE <<>>]

NoMainCsv == [exists |-> FALSE, rows |-> <<>>]

\* lines 170-174: the export of the deduplicated records
Export ==
    /\ mpc = "deduped"
    /\ IF ExportRaises(unique_products)
       THEN mpc' = "raised" /\ products_csv' = [exists |-> TRUE, rows |-> <<>>]
       ELSE /\ mpc' = "exported"
            /\ products_csv' =
                   [exists |-> TRUE,
                    rows |-> [i \in 1..Len(unique_products) |-> MainRow(unique_products[i])]]
    /\ UNCHANGED <<all_products, unique_products, llm_log, unique_again,
                   mainVars, normVars, valVars, exportVars, scrapeVars>>

\* line 167 applied to the records it gave
DedupAgain ==
    /\ mpc = "deduped"
    /\ LET again == [i \in 1..Len(unique_products) |-> Dict(unique_products[i])]
       IN  IF DedupRaises(again)
           THEN mpc' = "raised" /\ UNCHANGED unique_again
           ELSE /\ unique_again' \in Orders(ItemTuples(again))
                /\ mpc' = "again"
    /\ UNCHANGED <<all_products, unique_products, llm_log, products_csv,
                   mainVars, normVars, valVars, exportVars, scrapeVars>>

-----------------------------------------------------------------------------
(* scrapper.py: Loader, ArticleScraper, Saver and main_scraper_flow *)

(* The input table is missing, unreadable, or a sheet with a header and     *)
(* rows of three cells; a header of fewer columns shows the first cells.    *)
Headers ==
    {<<"URL_ID", "URL">>, <<"Url", "url_id">>, <<"x", "y", "z">>, <<"x">>}

IdA      == <<"a">>
IdAError == <<"a", "_", "e", "r", "r", "o", "r">>

U1       == <<"u", "1">>
U2       == <<"u", "2">>

SheetRows == {<<IdA, U1, U2>>, <<IdA, U2, U1>>, <<IdAError, U1, U2>>}

Tables ==
    {[status |-> s, header |-> <<>>, rows |-> <<>>] : s \in {"missing", "unreadable"}}
        \cup {[status |-> "ok", header |-> h, rows |-> r] :
                 h \in Headers, r \in SeqsUpTo(SheetRows, MaxUrls)}

\* str(col).upper()
Upper(name) ==
    CASE name \in {"URL_ID", "url_id"} -> "URL_ID"
      [] name \in {"URL", "Url"}       -> "URL"
      [] name = "x" -> "X" [] name = "y" -> "Y" [] name = "z" -> "Z"

\* lines 38-42: the last column whose upper-cased name is the wanted one, 0 if none
ColumnNamed(header, wanted) ==
    LET hits == {c \in 1..Len(header) : Upper(header[c]) = wanted}
    IN  IF hits = {} THEN 0 ELSE CHOOSE c \in hits : \A d \in hits : d <= c

\* load_urls as it would be if a single column stood for both
LoadUrlsOneColumn(t) ==
    IF t.status # "ok" THEN <<>>
    ELSE [r \in 1..Len(t.rows) |-> <<t.rows[r][1], t.rows[r][Min(2, Len(t.header))]>>]

\* Loader.load_urls, lines 23-60
LoadUrls(t) ==
    IF t.status # "ok" THEN <<>>
    ELSE LET i == ColumnNamed(t.header, "URL_ID")
             u == ColumnNamed(t.header, "URL")
         IN  IF i # 0 /\ u # 0
             THEN [r \in 1..Len(t.rows) |-> <<t.rows[r][i], t.rows[r][u]>>]
             ELSE IF Len(t.header) >= 2
             THEN [r \in 1..Len(t.rows) |-> <<t.rows[r][1], t.rows[r][2]>>]
             ELSE <<>>

KContent == <<"c", "o", "n", "t", "e", "n", "t">>

\* the truth value of a JSON value
Truthy(x) ==
    CASE x.t = "null" -> FALSE
      [] x.t = "num"  -> x.v # <<"0">>
      [] OTHER        -> x.v # <<>>

\* d.get(k, "")
GetOr(kv, k) == IF Has(kv, k) THEN Get(kv, k) ELSE Str(<<>>)

\* lines 260-263 and 298-301: the record of a mapping, if its title or content is truthy
FromMapping(kv) ==
    IF Truthy(GetOr(kv, KTitle)) \/ Truthy(GetOr(kv, KContent))
    THEN [kind |-> "hit", rec |-> [title |-> GetOr(kv, KTitle), content |-> GetOr(kv, KContent)]]
    ELSE [kind |-> "miss", rec |-> Null]

\* no record is found in any extracted_content
ExtractNothing(toks) == [kind |-> "miss", rec |-> Null]

\* lines 255-276 and 294-312: the record found in extracted_content; .get on a
\* first element that is no mapping raises AttributeError
Extract(toks) ==
    IF toks = <<>> \/ ~LoadsOk(toks) THEN [kind |-> "miss", rec |-> Null]
    ELSE LET v == LoadsValue(toks)
         IN  IF IsDict(v) THEN FromMapping(v.v)
             ELSE IF IsList(v) /\ Len(v.v) > 0
             THEN IF IsDict(v.v[1]) THEN FromMapping(v.v[1].v)
                  ELSE [kind |-> "raise", rec |-> Null]
             ELSE [kind |-> "miss", rec |-> Null]

NoTitleFound == <<"No Title Found">>

\* lines 315-334: the record made of the markdown of the result in hand, None
\* if it has neither filtered nor raw markdown
Markdown(r) ==
    LET title == IF r.title # <<>> THEN r.title ELSE NoTitleFound
    IN  IF r.fit # <<>> THEN [title |-> Str(title), content |-> Str(r.fit)]
        ELSE IF r.raw # <<>> THEN [title |-> Str(title), content |-> Str(r.raw)]
        ELSE Null

\* the structured contents a fetch gives: none, malformed text, a mapping
\* with a title and content, a list of such a mapping, a mapping with neither,
\* a list whose first element is a number, a number, and an empty list
Extracteds ==
    {<<>>, <<TProse>>,
     <<Json(Dict(<<<<KTitle, Str(<<"T">>)>>, <<KContent, Str(<<"C">>)>>>>))>>,
     <<Json(List(<<Dict(<<<<KContent, Str(<<"C">>)>>>>)>>))>>,
     <<Json(Dict(<<<<KTitle, Str(<<>>)>>>>))>>,
     <<Json(List(<<Num(<<"5">>)>>))>>,
     <<Json(Num(<<"5">>))>>,
     <<Json(VEmpty)>>}

\* the page title and markdown of a fetched page
Markdowns ==
    {[title |-> <<"P">>, fit |-> <<"F">>, raw |-> <<"R">>],
     [title |-> <<>>,    fit |-> <<>>,    raw |-> <<"R">>],
     [title |-> <<"P">>, fit |-> <<>>,    raw |-> <<>>]}

\* a fetch that did not succeed: no structured content and no markdown;
\* raised tells that the call of crawler.arun raised and left no new result
FailedFetch ==
    [raised |-> FALSE, success |-> FALSE, extracted |-> <<>>,
     title |-> <<>>, fit |-> <<>>, raw |-> <<>>]

\* what crawler.arun does: it raises, or returns a failed or a successful result
FetchOutcomes ==
    {[FailedFetch EXCEPT !.raised = TRUE], FailedFetch}
        \cup {[raised |-> FALSE, success |-> TRUE, extracted |-> e,
               title |-> m.title, fit |-> m.fit, raw |-> m.raw] :
                 e \in Extracteds, m \in Markdowns}

\* main_scraper_flow, lines 400-407: the URLs are loaded; without any the flow returns
Load ==
    /\ spc = "load"
    /\ urls' = LoadUrls(table)
    /\ idx' = 1
    /\ spc' = IF LoadUrls(table) = <<>> THEN "done" ELSE "primary"
    /\ UNCHANGED <<table, results, fetchlog, result, files,
                   mainVars, normVars, valVars, dedupVars, exportVars>>

\* scrape_url returned r, but only a record is put in the result map
ReturnRecordsOnly(r) ==
    /\ results' = IF r = Null THEN results ELSE Put(results, urls[idx][1], r)
    /\ idx' = idx + 1
    /\ spc' = IF idx = Len(urls) THEN "save" ELSE "primary"

\* scrape_url returned r, and the saving follows at once
ReturnToSave(r) ==
    /\ results' = Put(results, urls[idx][1], r)
    /\ idx' = idx + 1
    /\ spc' = "save"

\* lines 355-358 and 409-411: scrape_url returned r; it is recorded under the
\* item's identifier, and the next item or the saving follows
Return(r) ==
    /\ results' = Put(results, urls[idx][1], r)
    /\ idx' = idx + 1
    /\ spc' = IF idx = Len(urls) THEN "save" ELSE "primary"

\* the fetch of the current item with the given strategy
Fetched(kind) == [item |-> idx, url |-> urls[idx][2], kind |-> kind]

\* scrape_url, lines 228-276 and 338-342: the fetch with the primary strategy
FetchPrimary ==
    /\ spc = "primary"
    /\ fetchlog' = Append(fetchlog, Fetched("primary"))
    /\ \E o \in FetchOutcomes :
        IF o.raised THEN Return(Null) /\ result' = o
        ELSE /\ result' = o
             /\ IF ~o.success \/ Extract(o.extracted).kind = "raise" THEN Return(Null)
                ELSE IF Extract(o.extracted).kind = "hit" THEN Return(Extract(o.extracted).rec)
                ELSE spc' = "alt" /\ UNCHANGED <<results, idx>>
    /\ UNCHANGED <<table, urls, files, mainVars, normVars, valVars, dedupVars, exportVars>>

\* scrape_url, lines 279-342: the fetch with the alternate strategy, and the
\* markdown of its result when it holds no record either
FetchAlternate ==
    /\ spc = "alt"
    /\ fetchlog' = Append(fetchlog, Fetched("alt"))
    /\ \E o \in FetchOutcomes :
        IF o.raised THEN Return(Null) /\ result' = [result EXCEPT !.raised = TRUE]
        ELSE /\ result' = o
             /\ IF o.success /\ Extract(o.extracted).kind = "raise" THEN Return(Null)
                ELSE IF o.success /\ Extract(o.extracted).kind = "hit"
                THEN Return(Extract(o.extracted).rec)
                ELSE Return(Markdown(o))
    /\ UNCHANGED <<table, urls, files, mainVars, normVars, valVars, dedupVars, exportVars>>

ErrorSuffix == <<"_", "e", "r", "r", "o", "r">>
Txt         == <<".", "t", "x", "t">>

\* line 385: f"# {title}\n\n{content}"
ArticleText(rec) == <<"#", " ">> \o PyStr(rec.title) \o <<"LF", "LF">> \o PyStr(rec.content)

\* line 376
SentinelText(id) == <<"Failed to scrape content for URL_ID: ">> \o id

\* Saver.save_article, lines 369-390: open(..., 'w') replaces a file of that name
SaveArticle(fs, id, data) ==
    IF data = Null THEN Put(fs, id \o ErrorSuffix \o Txt, SentinelText(id))
    ELSE Put(fs, id \o Txt, ArticleText(data))

RECURSIVE SaveFrom(_, _, _)
\* Saver.save_articles, lines 392-395, from the i-th item of the map on
SaveFrom(fs, map, i) ==
    IF i > Len(map) THEN fs
    ELSE SaveFrom(SaveArticle(fs, map[i][1], map[i][2]), map, i + 1)

\* main_scraper_flow, line 411
SaveArticles ==
    /\ spc = "save"
    /\ files' = SaveFrom(files, results, 1)
    /\ spc' = "done"
    /\ UNCHANGED <<table, urls, idx, results, fetchlog, result,
                   mainVars, normVars, valVars, dedupVars, exportVars>>

-----------------------------------------------------------------------------
(* The specifications *)

InitMain ==
    /\ pc = "loop" /\ retry_count = 0 /\ delay = 0 /\ fetches = 0
    /\ slept = <<>> /\ errs = <<>> /\ res = NoResult /\ products = <<>>

InitNorm == content = Data(Null) /\ outcome = NoOutcome

InitVal ==
    /\ raw_data = <<>> /\ validated = <<>> /\ error_log = <<>>
    /\ error_file = NoFile /\ vpc = "idle"

InitDedup ==
    /\ all_products = <<>> /\ unique_products = <<>> /\ mpc = "collecting"
    /\ llm_log = <<>> /\ products_csv = NoMainCsv /\ unique_again = <<>>

InitExport == to_export = <<>> /\ csv_text = <<>> /\ csv_back = <<>> /\ epc = "idle"

InitScrape ==
    /\ table = [status |-> "missing", header |-> <<>>, rows |-> <<>>]
    /\ urls = <<>> /\ idx = 1 /\ spc = "idle" /\ results = <<>>
    /\ fetchlog = <<>> /\ result = FailedFetch /\ files = <<>>

\* demo.py main
Init == InitMain /\ InitNorm /\ InitVal /\ InitDedup /\ InitExport /\ InitScrape
Next == AttemptSucceeds \/ AttemptFails \/ Sleep \/ LoopExit
Spec == Init /\ [][Next]_vars

\* process_extraction_results on every content
InitNormalizer ==
    /\ InitMain /\ InitVal /\ InitDedup /\ InitExport /\ InitScrape
    /\ content \in Contents /\ outcome = NoOutcome
NextNormalizer == Process
SpecNormalizer == InitNormalizer /\ [][NextNormalizer]_vars

\* validate_products run again and again by one process
NextValidator == ValidateRun
SpecValidator == Init /\ [][NextValidator]_vars

\* validate_products called once on every candidate
InitCall ==
    /\ InitMain /\ InitNorm /\ InitDedup /\ InitExport /\ InitScrape
    /\ raw_data \in {<<x>> : x \in CallItems}
    /\ validated = <<>> /\ error_log = <<>> /\ error_file = NoFile /\ vpc = "called"
NextCall == ValidateCall
SpecCall == InitCall /\ [][NextCall]_vars

\* main.py from the first chunk to the export
NextDedup == ApiFails \/ ParseFails \/ Extend \/ Dedup \/ Export
SpecDedup == Init /\ [][NextDedup]_vars

\* the deduplication of main.py on every list of records, and once more on
\* the records it gave
InitIdem ==
    /\ InitMain /\ InitNorm /\ InitVal /\ InitExport /\ InitScrape
    /\ all_products \in SeqsUpTo(LlmRecords, MaxProducts)
    /\ unique_products = <<>> /\ mpc = "collecting"
    /\ llm_log = <<>> /\ products_csv = NoMainCsv /\ unique_again = <<>>
NextIdem == Dedup \/ DedupAgain
SpecIdem == InitIdem /\ [][NextIdem]_vars

\* the export of demo.py on every list of products, and its reading back
InitExporting ==
    /\ InitMain /\ InitNorm /\ InitVal /\ InitDedup /\ InitScrape
    /\ to_export \in SeqsUpTo(ExportProducts, MaxRows)
    /\ csv_text = <<>> /\ csv_back = <<>> /\ epc = "validated"
NextExport == ExportCsv \/ ReadCsv
SpecExport == InitExporting /\ [][NextExport]_vars

\* main_scraper_flow on every input table
InitScraper ==
    /\ InitMain /\ InitNorm /\ InitVal /\ InitDedup /\ InitExport
    /\ table \in Tables
    /\ urls = <<>> /\ idx = 1 /\ spc = "load" /\ results = <<>>
    /\ fetchlog = <<>> /\ result = FailedFetch /\ files = <<>>
NextScraper == Load \/ FetchPrimary \/ FetchAlternate \/ SaveArticles
SpecScraper == InitScraper /\ [][NextScraper]_vars

-----------------------------------------------------------------------------
(* The claims *)

Ended == pc \in {"raised", "returned"}

\* C1: in demo.py main, when all seven attempts have failed the run ends by
\* re-raising the error; main never returns normally after exhaustion.
C1_ExhaustionIsFatal ==
    (Len(errs) = max_retries /\ pc \notin {"loop", "sleep"}) => pc = "raised"

\* C2: the fetch is never invoked more than 7 times, once per attempt, and a
\* run in which every attempt failed ends only after exactly 7 fetches.
C2_SevenAttempts ==
    /\ fetches <= 7
    /\ fetches = Len(errs) + (IF pc = "success" THEN 1 ELSE 0)
    /\ Ended => fetches = 7 /\ Len(errs) = 7

C2_Witness == pc = "raised" /\ fetches = 7 /\ Len(errs) = 7

\* C3: when every attempt has failed, the delays slept are exactly
\* 16, 32, 64, 120, 120, 120, whatever the kinds of the errors.
C3_DelaySequence == Ended => slept = <<16, 32, 64, 120, 120, 120>>

\* the attempt recorded in res went through the fetch and the processing
Yielded ==
    /\ res.t = "result"
    /\ res.status # 429
    /\ ProcessExtractionResults(res.content).status = "returned"

\* C4: a cycle that yields data, also one with zero valid records, ends the
\* run in success: it is not counted as a failed attempt, and no fetch and no
\* sleep follows it.
C4_SuccessIsFinal ==
    /\ [](Yielded => pc = "success" /\ fetches = Len(errs) + 1 /\ Len(slept) = Len(errs))
    /\ [][pc = "success" => pc' = "success" /\ fetches' = fetches /\ slept' = slept]_vars

C4_Witness ==
    /\ pc = "success"
    /\ res.content = Text(<<Json(VNoPrice)>>)
    /\ products = <<>>
    /\ Len(errs) > 0

\* C5: for a text from which no rule parses JSON, process_extraction_results
\* reports the failure without raising to its caller.
C5_NoThrowOnGarbage ==
    (outcome # NoOutcome /\ ~Parse(content).ok) => outcome.status # "raised"

\* the text holds one ```json block around the JSON text of x and, outside
\* it, nothing but prose and white space
Fenced(c, x) ==
    /\ c.t = "text"
    /\ \E i, j, k \in 1..Len(c.v) :
        /\ i < j /\ j < k
        /\ c.v[i] = TFenceJson /\ c.v[j] = Json(x) /\ c.v[k] = TFence
        /\ \A n \in (i + 1)..(k - 1) : n # j => c.v[n] = TWs
        /\ \A n \in 1..Len(c.v) : (n < i \/ n > k) => c.v[n] \in {TWs, TProse}

\* C6: a JSON array or object inside a ```json block is extracted and parsed,
\* with the result the bare JSON text gives.
C6_FencedParsed ==
    \A x \in {VArray, VObject, VRecord, VEmpty} :
        (outcome # NoOutcome /\ Fenced(content, x))
            => outcome = ProcessExtractionResults(Text(<<Json(x)>>))

Count(s, ch) == Cardinality({i \in 1..Len(s) : s[i] = ch})

\* digits with at most one "." between them
IsNumber(s) ==
    /\ Len(s) >= 1
    /\ Range(s) \subseteq Digits \cup {"."}
    /\ Count(s, ".") <= 1
    /\ s[1] \in Digits /\ s[Len(s)] \in Digits

\* the price is a number, or a text that holds one number and no other digit
Coercible(x) ==
    \/ x.t = "num"
    \/ /\ x.t = "str"
       /\ \E i, j \in 1..Len(x.v) :
            /\ i <= j
            /\ IsNumber(SubSeq(x.v, i, j))
            /\ \A n \in 1..Len(x.v) : (n < i \/ n > j) => x.v[n] \notin Digits

NonEmptyTitle(item) ==
    IsDict(item) /\ Has(item.v, KTitle) /\ PyStr(Get(item.v, KTitle)) # <<>>

\* C7: a candidate with a non-empty title and a coercible price is accepted,
\* and the record's price holds only digits and at most one decimal point.
C7_PriceNumeric ==
    (/\ vpc = "returned"
     /\ Len(raw_data) = 1
     /\ NonEmptyTitle(raw_data[1])
     /\ Has(raw_data[1].v, KPrice)
     /\ Coercible(Get(raw_data[1].v, KPrice)))
        => /\ Len(validated) = 1
           /\ Range(validated[1].price) \subseteq Digits \cup {"."}
           /\ Count(validated[1].price, ".") <= 1

\* C8: every record validate_products returns has a non-empty title and a
\* non-empty price.
C8_RequiredNonEmpty ==
    vpc = "returned" =>
        \A i \in 1..Len(validated) :
            validated[i].title # <<>> /\ validated[i].price # <<>>

LacksTitle(item) == IsDict(item) /\ ~Has(item.v, KTitle)

Scenario ==
    <<Dict(<<<<KTitle, Str(TBread)>>, <<KPrice, Str(PFifty)>>>>),
      Dict(<<<<KPrice, Str(PThirty)>>>>)>>

\* C9: a candidate without title is rejected and logged in exactly one
\* ErrorLogEntry, whose index is its position in the input; of the two items
\* of the end-to-end scenario the first is kept with price "50" and the second
\* gives the one entry, of index 1.
C9_MissingTitleLogged ==
    vpc = "returned" =>
        /\ \A i \in 1..Len(raw_data) :
            LacksTitle(raw_data[i]) =>
                /\ Cardinality({j \in 1..Len(error_log) :
                                    error_log[j].index = i - 1}) = 1
                /\ \A j \in 1..Len(error_log) :
                        error_log[j].index = i - 1 => error_log[j].item = raw_data[i]
        /\ Len(validated) + Len(error_log) = Len(raw_data)
        /\ raw_data = Scenario =>
                /\ Len(validated) = 1
                /\ validated[1].title = TBread
                /\ validated[1].price = <<"5", "0">>
                /\ Len(error_log) = 1
                /\ error_log[1].index = 1

C9_Witness ==
    /\ vpc = "returned"
    /\ raw_data = Scenario
    /\ Len(error_log) = 1
    /\ error_file.entries = error_log

\* C10: the deduplicator's output holds each distinct record of the input
\* once, two records being the same when they hold the same values for the
\* same fields, in whatever order the fields stand.
C10_OrderIndependent ==
    mpc = "deduped" =>
        /\ \A i, j \in 1..Len(unique_products) :
            i # j => ~DictEq(unique_products[i], unique_products[j])
        /\ \A i \in 1..Len(all_products) :
            \E j \in 1..Len(unique_products) :
                DictEq(all_products[i].v, unique_products[j])

\* the row a reader expects for the product p: its field values, the empty
\* text where an optional field is null
RowOf(p) ==
    <<p.title,
      IF p.weight = Null THEN <<>> ELSE p.weight.v,
      p.price,
      IF p.badge = Null THEN <<>> ELSE p.badge.v,
      IF p.reviews = Null THEN <<>> ELSE p.reviews.v>>

C16_LogOfThisRun ==
    vpc = "returned" => error_file.entries = error_log

\* the value has a blocks key that holds a non-empty sequence
HasBlocks(d) ==
    /\ Has(d.v, KBlocks)
    /\ Get(d.v, KBlocks).t = "list"
    /\ Get(d.v, KBlocks).v # <<>>

\* C17: when the parsed response is a mapping with a products key the
\* candidates are that key's value, also when a blocks key is present; when it
\* has no products key but a blocks key holding a non-empty sequence they are
\* that sequence; a parsed array is the candidates as it stands.
C17_EnvelopeKeys ==
    outcome.status = "returned" =>
        LET d == Parse(content).data
        IN  /\ (d.t = "dict" /\ Has(d.v, KProducts)) =>
                   outcome.data = Get(d.v, KProducts)
            /\ (d.t = "dict" /\ ~Has(d.v, KProducts) /\ HasBlocks(d)) =>
                   outcome.data = Get(d.v, KBlocks)
            /\ d.t = "list" => outcome.data = d

\* a response with a non-empty blocks sequence before its products key was
\* normalized, and the product exported is the one under the products key
C17_Witness ==
    /\ outcome.status = "returned"
    /\ content = Text(<<Json(Dict(<<<<KBlocks, List(<<VOther>>)>>, <<KProducts, VArray>>>>))>>)
    /\ outcome.data = VArray
    /\ Len(outcome.products) = 1
    /\ outcome.products[1].title = TBread

\* C13: in the batch mode of main.py no outcome of the LLM on a chunk aborts
\* the run: whatever the replies were, the run does not end with an exception
\* before the export file is written.
C13_BatchNeverAborts ==
    mpc # "raised"

\* C18: the deduplication of main.py applied to the records it gave yields
\* the same set of records, and as many.
C18_DedupIdempotent ==
    mpc = "again" =>
        /\ Range(unique_again) = Range(unique_products)
        /\ Len(unique_again) = Len(unique_products)

\* three records with a repeated one were deduplicated to two, and the two
\* were deduplicated again
C18_Witness ==
    /\ mpc = "again"
    /\ Len(all_products) = 3
    /\ Len(unique_products) = 2
    /\ Len(unique_again) = 2

\* the items whose scrape_url call has returned
Returned == IF spc \in {"save", "done"} THEN 1..Len(urls) ELSE 1..(idx - 1)

\* C12: scrape_url never raises, so scrape_urls records a result, a record or
\* None, under the identifier of every item whose call has returned, every
\* item of the input is fetched in its turn whatever became of the items
\* before it, and the flow reaches the saving with a result for every
\* identifier of the input.
C12_EveryItemRecorded ==
    spc \in {"primary", "alt", "save", "done"} =>
        /\ \A i \in Returned :
               /\ Has(results, urls[i][1])
               /\ \E k \in 1..Len(fetchlog) :
                      fetchlog[k].item = i /\ fetchlog[k].kind = "primary"
        /\ Keys(results) = {urls[i][1] : i \in Returned}

\* the first of two items with different identifiers failed at its primary
\* fetch, and the second was fetched and scraped to a record all the same
C12_Witness ==
    /\ spc = "save"
    /\ Len(urls) = 2
    /\ urls[1][1] # urls[2][1]
    /\ Get(results, urls[1][1]) = Null
    /\ Get(results, urls[2][1]) # Null
    /\ Len(fetchlog) = 2
    /\ result.success

\* the text of the file of a result: the article, or the sentinel
FileOf(id, data) ==
    IF data = Null
    THEN [name |-> id \o <<"_", "e", "r", "r", "o", "r", ".", "t", "x", "t">>,
          text |-> <<"Failed to scrape content for URL_ID: ">> \o id]
    ELSE [name |-> id \o <<".", "t", "x", "t">>,
          text |-> <<"#", " ">> \o data.title.v \o <<"LF", "LF">> \o data.content.v]

\* C14: after save_articles every identifier of the result map has its file:
\* <id>.txt holding the title line and the content when it has a record, the
\* sentinel <id>_error.txt when it failed.
C14_OneFilePerIdentifier ==
    (spc = "done" /\ urls # <<>>) =>
        \A i \in 1..Len(results) :
            LET f == FileOf(results[i][1], results[i][2])
            IN  Has(files, f.name) /\ Get(files, f.name) = f.text

\* the input table names no item: the file is missing or unreadable, the
\* sheet has fewer than two columns, or it has no row
NoWorkItems ==
    table.status # "ok" \/ Len(table.header) < 2 \/ table.rows = <<>>

\* C15: when the Loader yields no WorkItems the flow of main_scraper_flow
\* ends right after loading: no fetch is issued, no result is recorded and no
\* article file or sentinel file is written.
C15_NoItemsNoWork ==
    NoWorkItems =>
        /\ spc \in {"load", "done"}
        /\ urls = <<>> /\ fetchlog = <<>> /\ results = <<>> /\ files = <<>>

\* the flow ended on a sheet of one column that has two rows
C15_Witness ==
    /\ spc = "done"
    /\ table.status = "ok"
    /\ Len(table.header) = 1
    /\ Len(table.rows) = 2

\* the value is a mapping with a non-empty title or content
Usable(v) ==
    v.t = "dict" /\ (Truthy(GetOr(v.v, KTitle)) \/ Truthy(GetOr(v.v, KContent)))

\* the structured content of the fetch result holds a record: it is the JSON
\* text of a usable mapping, or of a list that starts with one
Yields(o) ==
    /\ o.success /\ o.extracted # <<>> /\ LoadsOk(o.extracted)
    /\ LET v == LoadsValue(o.extracted)
       IN  Usable(v) \/ (v.t = "list" /\ v.v # <<>> /\ Usable(v.v[1]))

\* the record held by the structured content of a fetch result that yields one
RecordOf(o) ==
    LET v == LoadsValue(o.extracted)
        m == IF v.t = "list" THEN v.v[1].v ELSE v.v
    IN  [title |-> GetOr(m, KTitle), content |-> GetOr(m, KContent)]

\* the fetches issued for the i-th item, in their order
FetchesOf(i) ==
    LET ks == {k \in 1..Len(fetchlog) : fetchlog[k].item = i}
    IN  [n \in 1..Cardinality(ks) |->
            fetchlog[CHOOSE k \in ks : Cardinality({j \in ks : j <= k}) = n].kind]

\* C19: scrape_url tries its strategies in a fixed order and the first hit
\* wins: every item has at most two fetches, the primary one first; the
\* alternate fetch is issued only when the primary fetch succeeded and its
\* structured content held no record; a record held by the primary result is
\* returned at once, with no further fetch; and a record held by the alternate
\* result is returned in preference to the markdown.
C19_StrategyOrder ==
    /\ [](\A i \in 1..Len(urls) :
             FetchesOf(i) \in {<<>>, <<"primary">>, <<"primary", "alt">>})
    /\ [][/\ (spc = "primary" /\ spc' = "alt") =>
                 (result'.success /\ ~result'.raised /\ ~Yields(result'))
          /\ (spc = "primary" /\ ~result'.raised /\ Yields(result')) =>
                 (spc' # "alt" /\ Get(results', urls[idx][1]) = RecordOf(result'))
          /\ (spc = "alt" /\ spc' # "alt" /\ ~result'.raised /\ Yields(result')) =>
                 Get(results', urls[idx][1]) = RecordOf(result')
          /\ (spc = "alt" /\ spc' # "alt") =>
                 (result.success /\ ~result.raised /\ ~Yields(result))]_vars

\* one item was returned from the primary fetch alone with its record, and
\* the next went on to the alternate fetch and took the markdown
C19_Witness ==
    /\ spc = "save"
    /\ Len(urls) = 2
    /\ FetchesOf(1) = <<"primary">>
    /\ FetchesOf(2) = <<"primary", "alt">>
    /\ urls[1][1] # urls[2][1]
    /\ Get(results, urls[1][1]) = [title |-> Str(<<"T">>), content |-> Str(<<"C">>)]
    /\ Get(results, urls[2][1]) = [title |-> Str(<<"P">>), content |-> Str(<<"F">>)]

\* the content the markdown fallback is to give for a page: the filtered
\* markdown if present, else the raw markdown, else nothing
FallbackContent(page) ==
    IF page.fit # <<>> THEN Str(page.fit)
    ELSE IF page.raw # <<>> THEN Str(page.raw)
    ELSE Null

\* C20: when the primary fetch of a URL succeeded and neither its structured
\* content nor that of the alternate fetch held a record, scrape_url returns
\* a record whose content is the page's filtered markdown if present, else
\* its raw markdown, and returns None only when the page has neither.
C20_MarkdownFallback ==
    [][(spc = "alt" /\ spc' # "alt" /\ ~result'.raised /\ ~Yields(result')) =>
          LET page == IF result'.success THEN result' ELSE result
              r    == Get(results', urls[idx][1])
          IN  IF FallbackContent(page) = Null THEN r = Null
              ELSE r # Null /\ r.content = FallbackContent(page)]_vars

\* C21: structured content that holds no record (malformed JSON, a scalar, an
\* empty list, a list whose first element is no mapping, a mapping with
\* neither title nor content) is a miss for its step only: after the primary
\* fetch scrape_url goes on to the alternate fetch, and after the alternate
\* fetch it returns what the markdown of that result gives.
C21_UnusableIsMiss ==
    [][/\ (spc = "primary" /\ ~result'.raised /\ result'.success /\ ~Yields(result')) =>
              spc' = "alt"
       /\ (spc = "alt" /\ spc' # "alt" /\ ~result'.raised /\ result'.success
              /\ ~Yields(result')) =>
              LET r == Get(results', urls[idx][1])
              IN  IF FallbackContent(result') = Null THEN r = Null
                  ELSE r # Null /\ r.content = FallbackContent(result')]_vars

\* the position in the log of the primary fetch of the i-th item, 0 if it
\* has none
PrimaryIn(log, i) ==
    LET ks == {k \in 1..Len(log) : log[k].item = i /\ log[k].kind = "primary"}
    IN  IF ks = {} THEN 0 ELSE CHOOSE k \in ks : TRUE

PrimaryAt(i) == PrimaryIn(fetchlog, i)

\* C22: the items are processed one after the other in input order: the
\* fetch log never goes back to an earlier item, a fetch is issued for an
\* item only when every item before it has its result recorded, and a file
\* is written only when every item has been fetched and has its result, after
\* which no fetch follows.
C22_StrictlySequential ==
    /\ [](\A j, k \in 1..Len(fetchlog) : j <= k => fetchlog[j].item <= fetchlog[k].item)
    /\ [][/\ fetchlog' # fetchlog =>
                 /\ fetchlog'[Len(fetchlog')].item = idx
                 /\ \A j \in 1..(idx - 1) : Has(results, urls[j][1]) /\ PrimaryAt(j) # 0
          /\ files' # files =>
                 /\ fetchlog' = fetchlog
                 /\ \A j \in 1..Len(urls) : Has(results, urls[j][1]) /\ PrimaryAt(j) # 0
          /\ files # <<>> => fetchlog' = fetchlog /\ results' = results]_vars

\* two items with different identifiers were fetched, the first with both
\* strategies before the second, and both were saved
C22_Witness ==
    /\ spc = "done"
    /\ Len(urls) = 2
    /\ urls[1][1] # urls[2][1]
    /\ Len(fetchlog) = 3
    /\ fetchlog[2] = [item |-> 1, url |-> urls[1][2], kind |-> "alt"]
    /\ fetchlog[3].item = 2
    /\ Len(files) = 2

\* the items before the i-th one that have its identifier
Shares(i) == {j \in 1..(i - 1) : urls[j][1] = urls[i][1]}

\* C28: when an item has the identifier of an earlier item, both URLs are
\* fetched, in input order; the result kept for the identifier is that of the
\* later item, a failure as well as a record; and the files saved are those
\* of the results kept, the file of the identifier among them.
C28_LaterDuplicateWins ==
    /\ [][(idx' = idx + 1 /\ Shares(idx) # {}) =>
             /\ \A j \in Shares(idx) :
                    /\ PrimaryIn(fetchlog', j) # 0
                    /\ PrimaryIn(fetchlog', j) < PrimaryIn(fetchlog', idx)
                    /\ fetchlog'[PrimaryIn(fetchlog', j)].url = urls[j][2]
                    /\ fetchlog'[PrimaryIn(fetchlog', idx)].url = urls[idx][2]
             /\ (result'.raised \/ ~result'.success) =>
                    Get(results', urls[idx][1]) = Null
             /\ (~result'.raised /\ Yields(result')) =>
                    Get(results', urls[idx][1]) = RecordOf(result')
             /\ Len(results') = Len(results)]_vars
    /\ []((spc = "done" /\ urls # <<>>) =>
             /\ \A i \in 1..Len(results) :
                    Has(files, FileOf(results[i][1], results[i][2]).name)
             /\ \A n \in 1..Len(files) :
                    \E i \in 1..Len(results) :
                        /\ files[n][1] = FileOf(results[i][1], results[i][2]).name
                        /\ files[n][2] = FileOf(results[i][1], results[i][2]).text)

\* two items shared the identifier a with different URLs: both were fetched
\* in input order, the later one failed, and the sentinel alone was saved
C28_Witness ==
    /\ spc = "done"
    /\ Len(urls) = 2
    /\ urls[1][1] = urls[2][1]
    /\ urls[1][2] # urls[2][2]
    /\ fetchlog = <<[item |-> 1, url |-> urls[1][2], kind |-> "primary"],
                    [item |-> 2, url |-> urls[2][2], kind |-> "primary"]>>
    /\ results = <<<<urls[1][1], Null>>>>
    /\ Len(files) = 1
    /\ files[1][1] = <<"a", "_", "e", "r", "r", "o", "r", ".", "t", "x", "t">>

\* the positions of raw_data that the error log names
Rejected == {error_log[k].index + 1 : k \in 1..Len(error_log)}

\* the n-th smallest number of the set S
NthOf(S, n) == CHOOSE p \in S : Cardinality({q \in S : q <= p}) = n

\* C23: validate_products runs over the whole list whatever it holds: every
\* element gives either one accepted record or one error log entry naming its
\* index and the element, so the two counts add up to the length of the
\* input; the entries and the accepted records are in input order; and each
\* element fares as it does when validated alone.
C23_NeverAbortsBatch ==
    vpc = "returned" =>
        LET Accepted == (1..Len(raw_data)) \ Rejected
        IN  /\ Len(validated) + Len(error_log) = Len(raw_data)
            /\ Rejected \subseteq 1..Len(raw_data)
            /\ Cardinality(Rejected) = Len(error_log)
            /\ \A k \in 1..Len(error_log) :
                   /\ error_log[k].index + 1 = NthOf(Rejected, k)
                   /\ error_log[k].item = raw_data[error_log[k].index + 1]
                   /\ ValidatedFrom(<<error_log[k].item>>, 1) = <<>>
            /\ \A n \in 1..Len(validated) :
                   ValidatedFrom(<<raw_data[NthOf(Accepted, n)]>>, 1) = <<validated[n]>>

\* a text that is no mapping was rejected, and the product after it accepted
C23_Witness ==
    /\ vpc = "returned"
    /\ Len(raw_data) = 2
    /\ raw_data[1] = Str(TPlain)
    /\ Len(error_log) = 1
    /\ error_log[1].index = 0
    /\ Len(validated) = 1
    /\ validated[1].title = TBread

\* the candidate has no weight: the key is absent, or its value is null or ''
NoWeight(kv) ==
    ~Has(kv, KWeight) \/ Get(kv, KWeight) = Null \/ Get(kv, KWeight) = Str(<<>>)

\* C27: for an accepted candidate whose weight is absent, null or empty the
\* record's weight is the first number followed by g or kg in the title, and
\* stays absent when the title has none; a weight that is present and not
\* empty is the record's weight as it stands.
C27_WeightFromTitle ==
    (vpc = "returned" /\ Len(raw_data) = 1 /\ Len(validated) = 1) =>
        LET kv == raw_data[1].v
            m  == WeightSearch(GetOrEmpty(kv, KTitle))
        IN  IF NoWeight(kv)
            THEN IF m # <<>> THEN validated[1].weight = Str(m)
                 ELSE validated[1].weight \in {Null, Str(<<>>)}
            ELSE validated[1].weight = Get(kv, KWeight)

\* the candidates that fit the Product schema when taken one at a time
Fitting(raw) == {i \in 1..Len(raw) : ProductAccepts(raw[i])}

\* C24: the per-record pass of process_extraction_results runs only when the
\* strict pass over the whole batch raises, that is when some candidate does
\* not fit the schema; with or without it the records are, in order, the
\* candidates that fit the schema one at a time, and a candidate that does
\* not fit is left out without ending the pass.
C24_FallbackPerRecord ==
    outcome.status = "returned" =>
        LET raw == outcome.raw
            ps  == outcome.products
        IN  /\ outcome.fallback => Fitting(raw) # 1..Len(raw)
            /\ Len(ps) = Cardinality(Fitting(raw))
            /\ \A n \in 1..Len(ps) : ps[n] = Product(raw[NthOf(Fitting(raw), n)])

\* the per-record pass has run over three candidates of which the second does
\* not fit, and the first and the third are the records
C24_Witness ==
    /\ outcome.status = "returned"
    /\ outcome.fallback
    /\ Len(outcome.raw) = 3
    /\ Fitting(outcome.raw) = {1, 3}
    /\ Len(outcome.products) = 2
    /\ outcome.products[1].title = TBread
    /\ outcome.products[2].title = TPlain

\* some key of the mapping, or some value that is a string, holds the rupee sign
AnyRupee(kv) ==
    \E i \in 1..Len(kv) :
        HasRupee(kv[i][1]) \/ (IsStr(kv[i][2]) /\ HasRupee(kv[i][2].v))

\* the elements of the list that are to be kept
ToKeep(xs) ==
    {i \in 1..Len(xs) :
        /\ IsDict(xs[i])
        /\ Has(xs[i].v, KTitle)
        /\ Has(xs[i].v, KPrice) \/ AnyRupee(xs[i].v)}

\* C25: every candidate handed to validation is a mapping with a title and a
\* price that is a string; the candidates are, in the order of the list, its
\* elements that are mappings with a title and with a price or a rupee sign
\* in some key or value, each with the fields it came with.
C25_CandidatesWellFormed ==
    outcome.status = "returned" =>
        LET raw == outcome.raw
            xs  == IF IsList(outcome.data) THEN outcome.data.v ELSE <<>>
        IN  /\ \A n \in 1..Len(raw) :
                   /\ Has(raw[n], KTitle)
                   /\ Has(raw[n], KPrice)
                   /\ IsStr(Get(raw[n], KPrice))
            /\ Len(raw) = Cardinality(ToKeep(xs))
            /\ \A n \in 1..Len(raw) :
                   LET kv == xs[NthOf(ToKeep(xs), n)].v
                   IN  \A k \in Keys(kv) \ {KPrice} :
                           Has(raw[n], k) /\ Get(raw[n], k) = Get(kv, k)

\* of five elements a string, a mapping without title and a mapping without
\* price or rupee sign are dropped; the two left keep their order, and the
\* price that came as the number 50 is the string '50'
C25_Witness ==
    /\ outcome.status = "returned"
    /\ IsList(outcome.data)
    /\ Len(outcome.data.v) = 5
    /\ ToKeep(outcome.data.v) = {3, 5}
    /\ Len(outcome.raw) = 2
    /\ Get(outcome.data.v[3].v, KPrice) = Num(<<"5", "0">>)
    /\ Get(outcome.raw[1], KPrice) = Str(<<"5", "0">>)
    /\ outcome.raw[2] = VRecord.v

\* C26: for a list of one element that has a title and no price, the price
\* becomes the first key that holds the rupee sign if there is one, otherwise
\* the first value that holds it, and with neither the element is dropped.
C26_KeyBeforeValue ==
    (/\ outcome.status = "returned"
     /\ IsList(outcome.data)
     /\ Len(outcome.data.v) = 1
     /\ IsDict(outcome.data.v[1])
     /\ Has(outcome.data.v[1].v, KTitle)
     /\ ~Has(outcome.data.v[1].v, KPrice)) =>
        LET kv      == outcome.data.v[1].v
            raw     == outcome.raw
            keyHits == {i \in 1..Len(kv) : HasRupee(kv[i][1])}
            valHits == {i \in 1..Len(kv) : IsStr(kv[i][2]) /\ HasRupee(kv[i][2].v)}
        IN  IF keyHits # {}
            THEN Len(raw) = 1 /\ Get(raw[1], KPrice) = Str(kv[Least(keyHits)][1])
            ELSE IF valHits # {}
            THEN Len(raw) = 1 /\ Get(raw[1], KPrice) = kv[Least(valHits)][2]
            ELSE raw = <<>>

====
